---- MODULE Spec2Model ----
(***************************************************************************)
(* Model of the AutoDCA bot: the DCA scheduler (bot.py dca_scheduler), the *)
(* manual execute handler (bot.py cmd_execute), the plan lifecycle         *)
(* handlers and the transfer sequence (auto_send.py auto_send_usdt), over  *)
(* the persisted tables dca_plans / sent_transactions / wallets.           *)
(*                                                                         *)
(* One owner (Telegram user) is modelled.  Time is the UNIX clock in       *)
(* seconds; it advances in steps of ClockStep.  Every asyncio handler is   *)
(* split at its await points, so handlers interleave as coroutines do.     *)
(***************************************************************************)
EXTENDS Integers, Sequences, FiniteSets, TLC

\* ------------------------------------------------------------------------
\* Bounds of the model
\* ------------------------------------------------------------------------
\* number of clock steps explored
MaxClock == 3
\* number of remote orders the exchange issues
MaxOrders == 2
\* number of rows ever inserted into dca_plans
MaxPlans == 1
\* rows of dca_plans, rows about to be inserted included, where /setdca
\* handlers run concurrently
MaxPlanRows == 4
\* rows of dca_plans, rows about to be inserted included, where the
\* scheduler runs over several plans
MaxTickRows == 2
\* /setdca handlers in flight at a time
MaxPending == 2
\* words of an error text
MaxWords == 3
\* number of clock steps where the scheduler is followed until every order
\* has expired
MaxLiveClock == 4
\* rows of dca_plans, rows about to be inserted included, where plans of one
\* amount are created again after their deletion
MaxReplaceRows == 3

\* ------------------------------------------------------------------------
\* Program constants
\* ------------------------------------------------------------------------
\* seconds per hour, the factor in interval_hours * 3600
SecondsPerHour == 3600
\* bot-side cap of the maximum amount, min(max_limit, 500.0)
BotMaxAmount == 500
\* number of positional parameters of wallet.load_keystore(user_id)
LoadKeystoreParams == 1
\* number of positional arguments in auto_send_usdt's call
\* load_keystore(user_id, network_key)
LoadKeystoreArgs == 2

\* seconds of one clock step (12 hours, the shortest plan interval)
ClockStep == 12 * SecondsPerHour
\* SQL NULL / Python None; order ids and timestamps are positive
NULL == 0

\* the inputs of /setdca explored
Amounts == {50}
\* amounts of the plans where several plans of an owner coexist
PlanAmounts == {50, 60, 70, 80}
Intervals == {12}
Addresses == {"bc1qA", "bc1qB"}
Network == "USDT-ARB"
\* seconds-remaining values the exchange reports for a new order
TimeLefts == {1800, 64800}
\* replies of the exchange's price endpoint
LimitReplies ==
    { [kind |-> "limits", min |-> 10, max |-> 500],
      [kind |-> "limits", min |-> 60, max |-> 1000],
      [kind |-> "limits", min |-> 10, max |-> 40],
      [kind |-> "unavailable", min |-> 0, max |-> 0],
      [kind |-> "generic", min |-> 0, max |-> 0] }

VARIABLES
    clock,              \* time.time()
    dca_plans,          \* table dca_plans, row id = index
    sent_transactions,  \* table sent_transactions (the ledger), row id = index
    wallets,            \* table wallets: TRUE iff the owner has a row
    keystore,           \* keystores/user_<id>_wallet.json exists
    keyring,            \* OS keyring holds the owner's password
    wallet_passwords,   \* _wallet_passwords cache holds the owner's password
    remote_orders,      \* orders issued by the exchange, order id = index
    chain_txs,          \* transactions broadcast to the chain
    sched,              \* dca_scheduler coroutine: position and locals
    exec,               \* cmd_execute coroutine: position and locals
    pending             \* cmd_setdca handlers between their checks and their INSERT

vars == << clock, dca_plans, sent_transactions, wallets, keystore, keyring,
           wallet_passwords, remote_orders, chain_txs, sched, exec, pending >>

\* Python truthiness of a nullable integer/text column
Truthy(x) == x # NULL

Min(a, b) == IF a < b THEN a ELSE b

PlanIds == 1..Len(dca_plans)

\* sequence of the elements of the set of integers S in increasing order
RECURSIVE SortedSeq(_)
SortedSeq(S) ==
    IF S = {} THEN << >>
    ELSE LET m == CHOOSE x \in S : \A y \in S : x <= y
         IN << m >> \o SortedSeq(S \ {m})

\* ------------------------------------------------------------------------
\* Row constructors and queries
\* ------------------------------------------------------------------------
\* the four order columns of a plan row: active_order_id, active_order_address,
\* active_order_amount, active_order_expires
OrderRef(id, address, amount, expires) ==
    [id |-> id, address |-> address, amount |-> amount, expires |-> expires]

\* the order columns all NULL
NoOrder == OrderRef(NULL, NULL, NULL, NULL)

\* the order columns of a plan row
OrderOf(row) ==
    OrderRef(row.active_order_id, row.active_order_address,
             row.active_order_amount, row.active_order_expires)

\* INSERT INTO dca_plans (..., next_run, active[, active_order_*]):
\* deleted defaults to 0, the order columns to NULL
PlanRow(amount, interval, btc_address, next_run, order) ==
    [from_asset |-> Network, amount |-> amount, interval_hours |-> interval,
     btc_address |-> btc_address, next_run |-> next_run, active |-> TRUE,
     deleted |-> FALSE, active_order_id |-> order.id,
     active_order_address |-> order.address,
     active_order_amount |-> order.amount,
     active_order_expires |-> order.expires]

\* INSERT INTO sent_transactions (...): sent_at defaults to the current time
LedgerRow(plan_id, order_id, state, approve_tx, transfer_tx) ==
    [plan_id |-> plan_id, order_id |-> order_id, state |-> state,
     sent_at |-> clock, approve_tx_hash |-> approve_tx,
     transfer_tx_hash |-> transfer_tx, error_message |-> << >>]

\* ids of the owner's plans WHERE deleted = 0 ORDER BY id
LivePlans == SortedSeq({p \in PlanIds : ~dca_plans[p].deleted})

\* the selection of the due plans without `active = 1`
DuePlans_Paused(now) ==
    SortedSeq({p \in PlanIds : /\ ~dca_plans[p].deleted
                               /\ dca_plans[p].next_run <= now})

\* SELECT ... FROM dca_plans WHERE active = 1 AND deleted = 0 AND next_run <= now
DuePlans(now) ==
    SortedSeq({p \in PlanIds : /\ dca_plans[p].active
                               /\ ~dca_plans[p].deleted
                               /\ dca_plans[p].next_run <= now})

\* what fetchone() returns when no row matches (None)
NoRow ==
    [plan_id |-> NULL, order_id |-> NULL, state |-> "none", sent_at |-> NULL,
     approve_tx_hash |-> NULL, transfer_tx_hash |-> NULL,
     error_message |-> << >>]

\* SELECT state, sent_at FROM sent_transactions WHERE order_id = ? AND
\* plan_id = ?, fetchone(): the first matching row, NoRow when there is none
StateRow(order_id, plan_id) ==
    LET hits == {i \in 1..Len(sent_transactions) :
                    /\ sent_transactions[i].order_id = order_id
                    /\ sent_transactions[i].plan_id = plan_id}
    IN IF hits = {} THEN NoRow
       ELSE sent_transactions[CHOOSE i \in hits : \A j \in hits : i <= j]

\* the attempt recorded on the plan's earlier row, put back to sending for
\* the new order, where the plan has a row already
InsertSending_Reopens(plan_id, order_id) ==
    IF \E i \in 1..Len(sent_transactions) :
            sent_transactions[i].plan_id = plan_id
    THEN [i \in 1..Len(sent_transactions) |->
            IF sent_transactions[i].plan_id = plan_id
            THEN LedgerRow(plan_id, order_id, "sending", NULL, NULL)
            ELSE sent_transactions[i]]
    ELSE Append(sent_transactions,
                LedgerRow(plan_id, order_id, "sending", NULL, NULL))

\* INSERT INTO sent_transactions (..., state) VALUES (..., 'sending'): a new
\* row for the attempt, committed before the send
InsertSending(plan_id, order_id) ==
    Append(sent_transactions,
           LedgerRow(plan_id, order_id, "sending", NULL, NULL))

\* UPDATE sent_transactions SET state = ?, ... WHERE order_id = ? AND plan_id = ?
UpdateLedger(order_id, plan_id, state, approve_tx, transfer_tx, err) ==
    [i \in 1..Len(sent_transactions) |->
        IF /\ sent_transactions[i].order_id = order_id
           /\ sent_transactions[i].plan_id = plan_id
        THEN [sent_transactions[i] EXCEPT
                !.state = state,
                !.approve_tx_hash =
                    IF state = "sent" THEN approve_tx ELSE @,
                !.transfer_tx_hash =
                    IF state = "sent" THEN transfer_tx ELSE @,
                !.error_message = IF state = "sent" THEN @ ELSE err]
        ELSE sent_transactions[i]]

\* the schedule advanced from the time the plan was due at
AdvanceSchedule_FromDue(plan_id, now) ==
    [dca_plans EXCEPT ![plan_id].next_run =
        @ + dca_plans[plan_id].interval_hours * SecondsPerHour]

\* UPDATE dca_plans SET next_run = now + interval_hours * 3600 WHERE id = ?
AdvanceSchedule(plan_id, now) ==
    [dca_plans EXCEPT ![plan_id].next_run =
        now + dca_plans[plan_id].interval_hours * SecondsPerHour]

\* UPDATE dca_plans SET active_order_id = ?, ..., active_order_expires = ?
SetActiveOrder(plan_id, order) ==
    [dca_plans EXCEPT ![plan_id].active_order_id = order.id,
                      ![plan_id].active_order_address = order.address,
                      ![plan_id].active_order_amount = order.amount,
                      ![plan_id].active_order_expires = order.expires]

\* the deposit address the exchange assigns to an order (from.address)
DepositAddress(order_id) == 1000 + order_id

\* the exchange handing out the id of its first order again
NewOrderId_Reused == Min(1, Len(remote_orders) + 1)

\* order_data.get("id"): the id the exchange gives the order it creates,
\* different from the id of every earlier order
NewOrderId == Len(remote_orders) + 1

\* the exchange issues a new order: the plan it was created for, the handler
\* that asked for it and the time it expires at
NewRemoteOrder(plan_id, by, time_left) ==
    [plan_id |-> plan_id, by |-> by, expires |-> clock + time_left]

\* ------------------------------------------------------------------------
\* Step 1 of a scheduler iteration: may a new order be created?
\* ------------------------------------------------------------------------
\* Step1 with the branch for an unexpired order without a ledger row falling
\* through to the order creation instead of ending the iteration
Step1_NoRowProceeds(existing_order_id, existing_order_expires, now, state_row, interval_hours) ==
    IF /\ Truthy(existing_order_id)
       /\ Truthy(existing_order_expires)
       /\ existing_order_expires > now
    THEN IF state_row.state # "none"
         THEN CASE state_row.state = "sent" -> "proceed"
                [] state_row.state = "sending" -> "skip"
                [] state_row.state = "blocked" ->
                     LET dca_interval_seconds ==
                             interval_hours * SecondsPerHour
                         last_attempt_time ==
                             IF Truthy(state_row.sent_at)
                             THEN state_row.sent_at ELSE now
                         time_since_attempt == now - last_attempt_time
                     IN IF time_since_attempt < dca_interval_seconds
                        THEN "skip" ELSE "proceed"
                [] state_row.state = "failed" -> "proceed"
                [] OTHER -> "proceed"
         ELSE "proceed"
    ELSE "proceed"

\* Step1 without the test of the order's expiry: an order with a sending row
\* or without a row ends the iteration whether it has expired or not
Step1_IgnoresExpiry(existing_order_id, existing_order_expires, now, state_row, interval_hours) ==
    IF /\ Truthy(existing_order_id)
       /\ state_row.state \in {"sending", "none"}
    THEN "skip"
    ELSE "proceed"

\* "skip" is the code's `continue`, "proceed" is falling through to the limits
\* check and the order creation
Step1(existing_order_id, existing_order_expires, now, state_row, interval_hours) ==
    IF /\ Truthy(existing_order_id)
       /\ Truthy(existing_order_expires)
       /\ existing_order_expires > now
    THEN IF state_row.state # "none"
         THEN CASE state_row.state = "sent" -> "proceed"
                [] state_row.state = "sending" -> "skip"
                [] state_row.state = "blocked" ->
                     LET dca_interval_seconds ==
                             interval_hours * SecondsPerHour
                         last_attempt_time ==
                             IF Truthy(state_row.sent_at)
                             THEN state_row.sent_at ELSE now
                         time_since_attempt == now - last_attempt_time
                     IN IF time_since_attempt < dca_interval_seconds
                        THEN "skip" ELSE "proceed"
                [] state_row.state = "failed" -> "proceed"
                [] OTHER -> "proceed"
         ELSE "skip"
    ELSE "proceed"

\* ------------------------------------------------------------------------
\* Failure classification
\* ------------------------------------------------------------------------
\* An error text is modelled as the sequence of its lower-cased words
\* (punctuation dropped); a keyword occurs in it when its words occur
\* consecutively.
Occurs(kw, text) ==
    \E i \in 1..Len(text) :
        /\ i + Len(kw) - 1 <= Len(text)
        /\ \A k \in 1..Len(kw) : text[i + k - 1] = kw[k]

TransientKeywords ==
    { << "timeout" >>, << "connection" >>, << "rpc" >>, << "5xx" >>,
      << "unavailable" >>, << "failed", "to", "connect" >> }

\* str.lower() of a word: the words written with capitals, every other word
\* is its own lower case
LowerWord(w) ==
    CASE w = "Timeout" -> "timeout"
      [] w = "RPC" -> "rpc"
      [] w = "Failed" -> "failed"
      [] OTHER -> w

\* error.lower()
Lower(text) == [i \in 1..Len(text) |-> LowerWord(text[i])]

\* the keyword test applied to the text as it is, without lower()
is_retryable_CaseSensitive(error_text) ==
    \E kw \in TransientKeywords : Occurs(kw, error_text)

\* any(keyword in error.lower() for keyword in [...])
is_retryable(error_text) ==
    \E kw \in TransientKeywords : Occurs(kw, Lower(error_text))

\* the state the ledger row gets in `except Exception as send_error`, for
\* error_str = str(send_error)
ExceptionOutcome(error_str) ==
    IF is_retryable(error_str) THEN "blocked" ELSE "failed"

\* ------------------------------------------------------------------------
\* The transfer sequence, auto_send.auto_send_usdt
\* ------------------------------------------------------------------------
\* str(TypeError) of a call passing LoadKeystoreArgs positional arguments to
\* load_keystore, which takes LoadKeystoreParams
TypeErrorText ==
    << "load_keystore", "takes", "1", "positional", "argument", "but", "2",
       "were", "given" >>

NoResult ==
    [success |-> FALSE, approve_tx |-> NULL, transfer_tx |-> NULL,
     error_msg |-> << >>, txs |-> << >>, key |-> "none"]

\* the tuple (success, approve_tx_hash, transfer_tx_hash, error_message) that
\* auto_send_usdt returns, the transactions it broadcast (txs), and what
\* became of the decrypted private key on the path taken (key): "none" when
\* the path ends before decrypt_private_key returned a key, "cleared" when it
\* runs `private_key = None; del private_key`, "held" when it returns after
\* the decryption without running them
Result(success, approve_tx, transfer_tx, error_msg, txs, key) ==
    [success |-> success, approve_tx |-> approve_tx,
     transfer_tx |-> transfer_tx, error_msg |-> error_msg, txs |-> txs,
     key |-> key]

\* hash of the approve / transfer transaction of an order (positive, distinct)
ApproveHash(order_id) == 2 * order_id
TransferHash(order_id) == 2 * order_id + 1

\* safety margins of the native balance check, in tenths
\* (GAS_PRICE_MULTIPLIER = 1.2, MIN_NATIVE_MULTIPLIER = 1.5)
GAS_PRICE_MULTIPLIER_x10 == 12
MIN_NATIVE_MULTIPLIER_x10 == 15
\* test_config.DRY_RUN, "false" unless the environment sets it
DRY_RUN == FALSE

\* what the chain and the keystore answer during one run of the sequence
ErrorCauses == { << "connection", "timeout" >>, << "execution", "reverted" >> }
\* a transaction confirms, reverts (receipt.status # 1), the call that sends
\* it raises with one of the causes ("send_error"), or the wait for its
\* receipt, wait_for_transaction_receipt(hash, timeout=120), runs out of time
\* ("receipt_timeout")
RaisingOutcomes == {"send_error"}
\* str() of the exception the wait for a receipt raises when the time is up
TimeExhaustedText ==
    << "transaction", "is", "not", "in", "the", "chain", "after", "120",
       "seconds" >>
GoodEnv ==
    [password_ok |-> TRUE, connected |-> TRUE, usdt_balance |-> 100,
     native_balance |-> 4, approve_gas |-> 1, transfer_gas |-> 1,
     gas_price |-> 1, allowance |-> 0, approve |-> "confirmed",
     transfer |-> "confirmed", cause |-> << "connection", "timeout" >>]
\* no run of the sequence in progress
NoEnv == [GoodEnv EXCEPT !.connected = FALSE, !.password_ok = FALSE]
SendEnvs ==
    { GoodEnv,
      [GoodEnv EXCEPT !.allowance = 100],
      [GoodEnv EXCEPT !.password_ok = FALSE],
      [GoodEnv EXCEPT !.connected = FALSE],
      [GoodEnv EXCEPT !.usdt_balance = 0],
      [GoodEnv EXCEPT !.native_balance = 3] }
    \cup { [GoodEnv EXCEPT !.approve = "reverted"],
           [GoodEnv EXCEPT !.transfer = "reverted"],
           [GoodEnv EXCEPT !.approve = "receipt_timeout"],
           [GoodEnv EXCEPT !.transfer = "receipt_timeout"] }
    \cup { [GoodEnv EXCEPT !.approve = o, !.cause = c] :
              o \in RaisingOutcomes, c \in ErrorCauses }
    \cup { [GoodEnv EXCEPT !.transfer = o, !.cause = c] :
              o \in RaisingOutcomes, c \in ErrorCauses }

\* step 2 of the sequence: transfer_usdt and the wait for its receipt
TransferStep(order_id, approve_tx, txs, env) ==
    LET tx == [order_id |-> order_id, kind |-> "transfer"]
    IN IF DRY_RUN
       THEN Result(TRUE, approve_tx, NULL,
                   << "dry", "run", "would", "transfer", "usdt" >>, txs, "held")
       ELSE CASE env.transfer = "send_error" ->
                   Result(FALSE, approve_tx, NULL,
                          << "transfer", "failed", "failed", "to", "transfer",
                             "usdt" >> \o env.cause, txs, "held")
              [] env.transfer = "receipt_timeout" ->
                   Result(FALSE, approve_tx, NULL,
                          << "transfer", "failed" >> \o TimeExhaustedText,
                          Append(txs, tx), "held")
              [] env.transfer = "reverted" ->
                   Result(FALSE, approve_tx, TransferHash(order_id),
                          << "transfer", "transaction", "failed" >>,
                          Append(txs, tx), "held")
              [] OTHER ->
                   Result(TRUE, approve_tx, TransferHash(order_id), << >>,
                          Append(txs, tx), "cleared")

\* step 1 going on to the transfer whatever the status of the approve receipt
ApproveStep_IgnoresStatus(order_id, required_amount, env) ==
    TransferStep(order_id, ApproveHash(order_id),
                 << [order_id |-> order_id, kind |-> "approve"] >>, env)

\* step 1 of the sequence: approve only when the allowance is insufficient
ApproveStep(order_id, required_amount, env) ==
    LET tx == [order_id |-> order_id, kind |-> "approve"]
    IN IF env.allowance < required_amount
       THEN IF DRY_RUN
            THEN TransferStep(order_id, NULL, << >>, env)
            ELSE CASE env.approve = "send_error" ->
                        Result(FALSE, NULL, NULL,
                               << "approve", "failed", "failed", "to",
                                  "approve", "usdt" >> \o env.cause, << >>, "held")
                   [] env.approve = "receipt_timeout" ->
                        Result(FALSE, NULL, NULL,
                               << "approve", "failed" >> \o TimeExhaustedText,
                               << tx >>, "held")
                   [] env.approve = "reverted" ->
                        Result(FALSE, ApproveHash(order_id), NULL,
                               << "approve", "transaction", "failed" >>,
                               << tx >>, "held")
                   [] OTHER ->
                        TransferStep(order_id, ApproveHash(order_id),
                                     << tx >>, env)
       ELSE TransferStep(order_id, NULL, << >>, env)

\* the sequence going straight to its transactions, with none of the checks
\* that precede them
auto_send_usdt_Ungated(order_id, required_amount, has_keystore, env) ==
    ApproveStep(order_id, required_amount, env)

\* auto_send_usdt(network_key, user_id, wallet_password, deposit_address,
\* required_amount, btc_address, order_id, dry_run).  Its first statement
\* calls load_keystore(user_id, network_key); wallet.load_keystore takes
\* user_id only, so the call raises TypeError, which the function's outer
\* `except Exception` turns into the failure "Unexpected error: ...".
auto_send_usdt(order_id, required_amount, has_keystore, env) ==
    IF LoadKeystoreArgs # LoadKeystoreParams
    THEN Result(FALSE, NULL, NULL,
                << "unexpected", "error" >> \o TypeErrorText, << >>, "none")
    ELSE IF ~has_keystore
    THEN Result(FALSE, NULL, NULL,
                << "wallet", "not", "configured", "for", "usdt-arb", "use",
                   "setwallet", "to", "configure" >>, << >>, "none")
    ELSE IF ~env.password_ok
    THEN Result(FALSE, NULL, NULL,
                << "incorrect", "wallet", "password" >>, << >>, "none")
    ELSE IF ~env.connected
    THEN Result(FALSE, NULL, NULL,
                << "unexpected", "error", "failed", "to", "connect", "to",
                   "arbitrum", "rpc" >>, << >>, "held")
    ELSE IF env.usdt_balance < required_amount
    THEN Result(FALSE, NULL, NULL,
                << "insufficient", "usdt", "balance" >>, << >>, "held")
    ELSE IF env.native_balance * 100 <
                (env.approve_gas + env.transfer_gas) * env.gas_price
                    * GAS_PRICE_MULTIPLIER_x10 * MIN_NATIVE_MULTIPLIER_x10
    THEN Result(FALSE, NULL, NULL,
                << "insufficient", "eth", "balance", "for", "gas" >>, << >>, "held")
    ELSE ApproveStep(order_id, required_amount, env)

\* a message of the scheduler to the owner about an attempt: which outcome it
\* reports and the amount and deposit address it names for a manual send
Notice(kind, amount, deposit_address) ==
    [kind |-> kind, amount |-> amount, deposit_address |-> deposit_address]

NoNotice == Notice("none", NULL, NULL)

\* msgs: the messages bot.send_message delivered to the owner so far in the
\* iteration
SchedIdle ==
    [pc |-> "sleep", now |-> NULL, queue |-> << >>, order_id |-> NULL,
     time_left |-> NULL, env |-> NoEnv, result |-> NoResult,
     notice |-> NoNotice, limits |-> "none", msgs |-> 0]

ExecIdle ==
    [pc |-> "idle", plan_id |-> NULL, now |-> NULL, order_id |-> NULL,
     time_left |-> NULL]

Init ==
    /\ clock = ClockStep
    /\ dca_plans = << >>
    /\ sent_transactions = << >>
    /\ wallets = FALSE
    /\ keystore = FALSE
    /\ keyring = FALSE
    /\ wallet_passwords = FALSE
    /\ remote_orders = << >>
    /\ chain_txs = << >>
    /\ sched = SchedIdle
    /\ exec = ExecIdle
    /\ pending = << >>

\* ------------------------------------------------------------------------
\* Time, restart
\* ------------------------------------------------------------------------
\* The clock advances by one step.  A handler run (seconds to a few minutes)
\* is short against a step, so the clock moves only between handler runs.
ClockAdvance(max_clock) ==
    /\ clock < max_clock * ClockStep
    /\ sched.pc = "sleep"
    /\ exec.pc = "idle"
    /\ pending = << >>
    /\ clock' = clock + ClockStep
    /\ UNCHANGED << dca_plans, sent_transactions, wallets, keystore, keyring,
                    wallet_passwords, remote_orders, chain_txs, sched, exec,
                    pending >>

ClockTick == ClockAdvance(MaxClock)

\* The process is killed at any await point and started again: main() runs
\* init_db, load_passwords_at_startup and starts dca_scheduler afresh.  Only
\* the tables, the keystore file and the keyring survive; the keyring belongs
\* to the operating system, and its entry may be gone when the process comes
\* back ("No password in keyring for user ...").
CrashRestart ==
    /\ sched' = SchedIdle
    /\ exec' = ExecIdle
    /\ \E kept \in BOOLEAN :
          /\ keyring' = (keyring /\ kept)
          /\ wallet_passwords' = (wallets /\ keyring /\ kept)
    /\ UNCHANGED << clock, dca_plans, sent_transactions, wallets, keystore,
                    remote_orders, chain_txs, pending >>

\* ------------------------------------------------------------------------
\* Plan lifecycle and wallet handlers
\* ------------------------------------------------------------------------
\* WHERE user_id = ? AND from_asset = ? AND amount = ? AND interval_hours = ?
SameParams(p, amount, interval) ==
    /\ dca_plans[p].from_asset = Network
    /\ dca_plans[p].amount = amount
    /\ dca_plans[p].interval_hours = interval

\* SELECT COUNT(*) FROM dca_plans WHERE user_id = ? AND from_asset = ? AND
\* deleted = 0
PlansCount ==
    Cardinality({p \in PlanIds : /\ dca_plans[p].from_asset = Network
                                 /\ ~dca_plans[p].deleted})

\* the two checks of /setdca: a non-deleted plan with the same network,
\* amount and interval exists, or the network has 3 non-deleted plans
SetdcaRejected(amount, interval) ==
    \/ \E p \in PlanIds : SameParams(p, amount, interval) /\ ~dca_plans[p].deleted
    \/ PlansCount >= 3

\* the row /setdca inserts: with the order columns of the deleted plan of
\* the same parameters whose order expires last (... AND active_order_id IS
\* NOT NULL AND deleted = 1 ORDER BY active_order_expires DESC LIMIT 1), when
\* that order has not expired and the destination address is the same;
\* without an order otherwise
SetdcaRow(amount, interval, btc_address, now) ==
    LET next_run == now + interval * SecondsPerHour
        cands == {p \in PlanIds : /\ SameParams(p, amount, interval)
                                  /\ dca_plans[p].deleted
                                  /\ dca_plans[p].active_order_id # NULL}
        existing_order ==
            CHOOSE p \in cands : \A q \in cands :
                \/ dca_plans[p].active_order_expires >
                       dca_plans[q].active_order_expires
                \/ /\ dca_plans[p].active_order_expires =
                          dca_plans[q].active_order_expires
                   /\ p <= q
        inherit ==
            /\ cands # {}
            /\ Truthy(dca_plans[existing_order].active_order_expires)
            /\ dca_plans[existing_order].active_order_expires > now
            /\ dca_plans[existing_order].btc_address = btc_address
    IN IF inherit
       THEN PlanRow(amount, interval, btc_address, next_run,
                    OrderOf(dca_plans[existing_order]))
       ELSE PlanRow(amount, interval, btc_address, next_run, NoOrder)

\* /setdca NETWORK AMOUNT INTERVAL BTC_ADDRESS, after its validations passed,
\* run without another handler in between
cmd_setdca ==
    \E amount \in Amounts, interval \in Intervals, btc_address \in Addresses :
        /\ Len(dca_plans) < MaxPlans
        /\ ~SetdcaRejected(amount, interval)
        /\ dca_plans' = Append(dca_plans,
                            SetdcaRow(amount, interval, btc_address, clock))
        /\ UNCHANGED << clock, sent_transactions, wallets, keystore,
                        keyring, wallet_passwords, remote_orders,
                        chain_txs, sched, exec, pending >>

\* /setdca up to its INSERT, with an amount of `amounts` and while fewer than
\* max_rows rows exist: the count, the duplicate check and the query
\* for an order to inherit have been answered, the row to insert is decided.
\* Each query and the INSERT are awaited one by one on the handler's own
\* connection with no transaction around them, and the dispatcher runs the
\* handlers of several updates as concurrent tasks.
cmd_setdca_check(amounts, max_rows) ==
    \E amount \in amounts, interval \in Intervals, btc_address \in Addresses :
        /\ Len(dca_plans) + Len(pending) < max_rows
        /\ Len(pending) < MaxPending
        /\ ~SetdcaRejected(amount, interval)
        /\ pending' = Append(pending,
                          SetdcaRow(amount, interval, btc_address, clock))
        /\ UNCHANGED << clock, dca_plans, sent_transactions, wallets,
                        keystore, keyring, wallet_passwords, remote_orders,
                        chain_txs, sched, exec >>

\* the INSERT and the commit of a /setdca handler that passed its checks
cmd_setdca_insert ==
    \E i \in 1..Len(pending) :
        /\ dca_plans' = Append(dca_plans, pending[i])
        /\ pending' = SubSeq(pending, 1, i - 1)
                        \o SubSeq(pending, i + 1, Len(pending))
        /\ UNCHANGED << clock, sent_transactions, wallets, keystore,
                        keyring, wallet_passwords, remote_orders,
                        chain_txs, sched, exec >>

\* cmd_delete clearing the order columns of the row it marks deleted
cmd_delete_ClearsOrder ==
    \E n \in 1..Len(LivePlans) :
        /\ dca_plans' = [SetActiveOrder(LivePlans[n], NoOrder) EXCEPT
                            ![LivePlans[n]].deleted = TRUE,
                            ![LivePlans[n]].active = FALSE]
        /\ UNCHANGED << clock, sent_transactions, wallets, keystore, keyring,
                        wallet_passwords, remote_orders, chain_txs, sched,
                        exec, pending >>

\* /delete_N: both branches (live order or not) mark the row deleted and
\* inactive; the order columns are left as they are
cmd_delete ==
    \E n \in 1..Len(LivePlans) :
        /\ dca_plans' = [dca_plans EXCEPT ![LivePlans[n]].deleted = TRUE,
                                          ![LivePlans[n]].active = FALSE]
        /\ UNCHANGED << clock, sent_transactions, wallets, keystore, keyring,
                        wallet_passwords, remote_orders, chain_txs, sched,
                        exec, pending >>

\* the UPDATE of active without `AND deleted = 0`
SetActive_AnyPlan(n, value) ==
    [p \in PlanIds |->
        IF n = 0 \/ p = LivePlans[n]
        THEN [dca_plans[p] EXCEPT !.active = value]
        ELSE dca_plans[p]]

\* UPDATE dca_plans SET active = ? for plan number n, or for every
\* non-deleted plan of the owner when no number is given (n = 0)
SetActive(n, value) ==
    [p \in PlanIds |->
        IF /\ ~dca_plans[p].deleted
           /\ (n = 0 \/ p = LivePlans[n])
        THEN [dca_plans[p] EXCEPT !.active = value]
        ELSE dca_plans[p]]

\* /pause or /pause_N
cmd_pause ==
    \E n \in 0..Len(LivePlans) :
        /\ dca_plans' = SetActive(n, FALSE)
        /\ UNCHANGED << clock, sent_transactions, wallets, keystore, keyring,
                        wallet_passwords, remote_orders, chain_txs, sched,
                        exec, pending >>

\* /resume or /resume_N
cmd_resume ==
    \E n \in 0..Len(LivePlans) :
        /\ dca_plans' = SetActive(n, TRUE)
        /\ UNCHANGED << clock, sent_transactions, wallets, keystore, keyring,
                        wallet_passwords, remote_orders, chain_txs, sched,
                        exec, pending >>

\* /setwallet with a well-formed wallet.json and no keystore yet
cmd_setwallet ==
    /\ ~keystore
    /\ keystore' = TRUE
    /\ keyring' = TRUE
    /\ wallet_passwords' = TRUE
    /\ wallets' = TRUE
    /\ UNCHANGED << clock, dca_plans, sent_transactions, remote_orders,
                    chain_txs, sched, exec, pending >>

\* /deletewallet removing the keystore file and the keyring entry only
cmd_deletewallet_KeepsRow ==
    /\ keystore' = FALSE
    /\ keyring' = FALSE
    /\ UNCHANGED << clock, dca_plans, sent_transactions, wallets,
                    wallet_passwords, remote_orders, chain_txs, sched, exec,
                    pending >>

\* /deletewallet
cmd_deletewallet ==
    /\ wallets' = FALSE
    /\ keystore' = FALSE
    /\ keyring' = FALSE
    /\ wallet_passwords' = FALSE
    /\ UNCHANGED << clock, dca_plans, sent_transactions, remote_orders,
                    chain_txs, sched, exec, pending >>

\* ------------------------------------------------------------------------
\* dca_scheduler
\* ------------------------------------------------------------------------
\* the plan of the current iteration of `for plan in plans`
CurPlan == Head(sched.queue)

\* `continue` / end of the loop body: on to the next selected plan, or back
\* to asyncio.sleep(60) after the last one
NextPlan ==
    IF Len(sched.queue) > 1
    THEN [SchedIdle EXCEPT !.pc = "step1", !.now = sched.now,
                           !.queue = Tail(sched.queue)]
    ELSE SchedIdle

\* the sleep ends: now = int(time.time()), the due plans are selected
SchedTick ==
    /\ sched.pc = "sleep"
    /\ sched' = IF DuePlans(clock) = << >> THEN SchedIdle
                ELSE [SchedIdle EXCEPT !.pc = "step1", !.now = clock,
                                       !.queue = DuePlans(clock)]
    /\ UNCHANGED << clock, dca_plans, sent_transactions, wallets, keystore,
                    keyring, wallet_passwords, remote_orders, chain_txs,
                    exec, pending >>

\* the check of the plan's active order and of its ledger row
SchedStep1 ==
    /\ sched.pc = "step1"
    /\ LET plan == dca_plans[CurPlan]
           state_row == StateRow(plan.active_order_id, CurPlan)
       IN sched' =
            IF Step1(plan.active_order_id, plan.active_order_expires,
                     sched.now, state_row, plan.interval_hours) = "skip"
            THEN NextPlan
            ELSE [sched EXCEPT !.pc = "limits"]
    /\ UNCHANGED << clock, dca_plans, sent_transactions, wallets, keystore,
                    keyring, wallet_passwords, remote_orders, chain_txs,
                    exec, pending >>

\* amount < min_limit or amount > min(max_limit, 500.0)
OutOfLimits(amount, reply) ==
    \/ amount < reply.min
    \/ amount > Min(reply.max, BotMaxAmount)

\* how the limits check of an iteration ends for a reply of the exchange:
\* "out_of_limits" and "unavailable" reschedule the plan, "ok" and "generic"
\* (any other RuntimeError of the query, which is only logged) go on to
\* create the order
LimitsCheck(amount, reply) ==
    IF reply.kind = "limits"
    THEN IF OutOfLimits(amount, reply) THEN "out_of_limits" ELSE "ok"
    ELSE reply.kind

\* get_fixedfloat_limits and the limits check.  Out of limits, or the network
\* reported unavailable: the owner is notified (when the message raises, the
\* iteration's `except Exception` takes over), then next_run = now +
\* interval, continue.  Otherwise the iteration goes on to create the order.
SchedLimits ==
    /\ sched.pc = "limits"
    /\ \E reply \in LimitReplies, raised \in BOOLEAN :
          LET check == LimitsCheck(dca_plans[CurPlan].amount, reply)
          IN sched' =
               IF check \in {"out_of_limits", "unavailable"}
               THEN [sched EXCEPT !.pc = IF raised THEN "except" ELSE "advance",
                                  !.limits = check,
                                  !.msgs = IF raised THEN @ ELSE @ + 1]
               ELSE [sched EXCEPT !.pc = "create", !.limits = check]
    /\ UNCHANGED << clock, dca_plans, sent_transactions, wallets, keystore,
                    keyring, wallet_passwords, remote_orders, chain_txs,
                    exec, pending >>

\* create_fixedfloat_order in a worker thread: the exchange issues an order,
\* or the request raises and the iteration's `except Exception` takes over
SchedCreateOrder ==
    /\ sched.pc = "create"
    /\ \E ok \in BOOLEAN, time_left \in TimeLefts :
          IF ok
          THEN /\ Len(remote_orders) < MaxOrders
               /\ remote_orders' = Append(remote_orders,
                     NewRemoteOrder(CurPlan, "dca_scheduler", time_left))
               /\ sched' = [sched EXCEPT !.pc = "persist",
                                         !.order_id = NewOrderId,
                                         !.time_left = time_left,
                                         !.limits = "none"]
          ELSE /\ sched' = [sched EXCEPT !.pc = "except",
                                         !.limits = "none"]
               /\ UNCHANGED remote_orders
    /\ UNCHANGED << clock, dca_plans, sent_transactions, wallets, keystore,
                    keyring, wallet_passwords, chain_txs, exec, pending >>

\* the order is saved on the plan row and committed
SchedPersistOrder ==
    /\ sched.pc = "persist"
    /\ dca_plans' = SetActiveOrder(CurPlan,
                        OrderRef(sched.order_id, DepositAddress(sched.order_id),
                                 dca_plans[CurPlan].amount,
                                 clock + sched.time_left))
    /\ sched' = [sched EXCEPT !.pc = "wallet"]
    /\ UNCHANGED << clock, sent_transactions, wallets, keystore, keyring,
                    wallet_passwords, remote_orders, chain_txs, exec, pending >>

\* the credentials check taking the wallet row for enough
HasCredentials_WalletOnly == wallets

\* `if wallet_row and wallet_password`: the owner has a row in wallets and a
\* password in the cache
HasCredentials == wallets /\ wallet_passwords

\* wallet row and cached password present: the 'sending' row is inserted and
\* committed before the send; otherwise the order is left for a manual send
SchedCheckWallet ==
    /\ sched.pc = "wallet"
    /\ IF HasCredentials
       THEN /\ sent_transactions' = InsertSending(CurPlan, sched.order_id)
            /\ sched' = [sched EXCEPT !.pc = "announce"]
       ELSE /\ sched' = [sched EXCEPT !.pc = "notify_manual"]
            /\ UNCHANGED sent_transactions
    /\ UNCHANGED << clock, dca_plans, wallets, keystore, keyring,
                    wallet_passwords, remote_orders, chain_txs, exec, pending >>

\* bot.send_message("... Auto-sending USDT..."): delivered, or it raises and
\* the iteration's `except Exception` takes over
SchedAnnounce ==
    /\ sched.pc = "announce"
    /\ \E raised \in BOOLEAN :
          sched' = [sched EXCEPT !.pc = IF raised THEN "except" ELSE "send",
                                 !.msgs = IF raised THEN @ ELSE @ + 1]
    /\ UNCHANGED << clock, dca_plans, sent_transactions, wallets, keystore,
                    keyring, wallet_passwords, remote_orders, chain_txs,
                    exec, pending >>

\* required_amount = float(deposit_amount), the amount the order quotes
RequiredAmount(plan_id) == dca_plans[plan_id].amount

\* await auto_send_usdt(...).  The function catches every Exception itself,
\* so the scheduler's `except Exception as send_error` is never entered.
SchedAutoSend ==
    /\ sched.pc = "send"
    /\ \E env \in SendEnvs :
          LET r == auto_send_usdt(sched.order_id, RequiredAmount(CurPlan),
                                  keystore, env)
          IN /\ sched' = [sched EXCEPT !.pc = "record", !.env = env,
                                        !.result = r]
             /\ chain_txs' = chain_txs \o r.txs
    /\ UNCHANGED << clock, dca_plans, sent_transactions, wallets, keystore,
                    keyring, wallet_passwords, remote_orders, exec, pending >>

\* Outcome with every failure taken for a transient one
Outcome_RetryAll(result) ==
    IF result.success THEN "sent" ELSE "blocked"

\* the state the ledger row gets for a result of auto_send_usdt
Outcome(result) ==
    IF result.success THEN "sent"
    ELSE IF is_retryable(result.error_msg) THEN "blocked"
    ELSE "failed"

\* UPDATE sent_transactions SET ... state = 'sent' | 'blocked' | 'failed',
\* committed
SchedRecord ==
    /\ sched.pc = "record"
    /\ sent_transactions' =
          UpdateLedger(sched.order_id, CurPlan, Outcome(sched.result),
                       sched.result.approve_tx, sched.result.transfer_tx,
                       sched.result.error_msg)
    /\ sched' = [sched EXCEPT !.pc = "notify_result"]
    /\ UNCHANGED << clock, dca_plans, wallets, keystore, keyring,
                    wallet_passwords, remote_orders, chain_txs, exec, pending >>

\* the message for `failed` without the amount and the deposit address
ResultNotice_NoAddress(outcome, required_amount, deposit_address) ==
    Notice(outcome, NULL, NULL)

\* the message sent for an outcome: the one for `failed` asks for a manual
\* send and names required_amount and deposit_address, the ones for `sent`
\* and `blocked` name neither
ResultNotice(outcome, required_amount, deposit_address) ==
    IF outcome = "failed"
    THEN Notice("failed", required_amount, deposit_address)
    ELSE Notice(outcome, NULL, NULL)

\* bot.send_message of the outcome.  blocked: `continue`, the schedule is
\* left alone; sent / failed: the schedule is advanced next.
SchedNotifyResult ==
    /\ sched.pc = "notify_result"
    /\ \E raised \in BOOLEAN :
          sched' = IF raised THEN [sched EXCEPT !.pc = "except"]
                   ELSE IF Outcome(sched.result) = "blocked" THEN NextPlan
                   ELSE [sched EXCEPT
                           !.pc = "advance",
                           !.msgs = @ + 1,
                           !.notice =
                               ResultNotice(Outcome(sched.result),
                                            RequiredAmount(CurPlan),
                                            DepositAddress(sched.order_id))]
    /\ UNCHANGED << clock, dca_plans, sent_transactions, wallets, keystore,
                    keyring, wallet_passwords, remote_orders, chain_txs,
                    exec, pending >>

\* no wallet or no cached password: the owner is asked to send manually, with
\* the order's amount and deposit address
SchedNotifyManual ==
    /\ sched.pc = "notify_manual"
    /\ \E raised \in BOOLEAN :
          sched' = IF raised THEN [sched EXCEPT !.pc = "except"]
                   ELSE [sched EXCEPT
                           !.pc = "advance",
                           !.msgs = @ + 1,
                           !.notice = Notice("manual", RequiredAmount(CurPlan),
                                             DepositAddress(sched.order_id))]
    /\ UNCHANGED << clock, dca_plans, sent_transactions, wallets, keystore,
                    keyring, wallet_passwords, remote_orders, chain_txs,
                    exec, pending >>

\* new_next_run = now + interval_hours * 3600, committed
SchedAdvance ==
    /\ sched.pc = "advance"
    /\ dca_plans' = AdvanceSchedule(CurPlan, sched.now)
    /\ sched' = NextPlan
    /\ UNCHANGED << clock, sent_transactions, wallets, keystore, keyring,
                    wallet_passwords, remote_orders, chain_txs, exec, pending >>

\* the iteration's `except Exception`: notify (errors swallowed), then
\* next_run = now + interval_hours * 3600 for this plan only.  The UPDATE and
\* its commit stand in the handler unguarded: when they raise (the database
\* is locked, the disk is full), the exception leaves the `for` loop.
SchedExcept ==
    /\ sched.pc = "except"
    /\ \E db_raised \in BOOLEAN :
          IF db_raised
          THEN /\ sched' = [sched EXCEPT !.pc = "outer_except"]
               /\ UNCHANGED dca_plans
          ELSE /\ dca_plans' = AdvanceSchedule(CurPlan, sched.now)
               /\ sched' = NextPlan
    /\ UNCHANGED << clock, sent_transactions, wallets, keystore, keyring,
                    wallet_passwords, remote_orders, chain_txs, exec, pending >>

\* the loop's outer `except Exception`: the error is logged and the loop goes
\* back to asyncio.sleep(60); what was left of `plans` is dropped
SchedOuterExcept ==
    /\ sched.pc = "outer_except"
    /\ sched' = SchedIdle
    /\ UNCHANGED << clock, dca_plans, sent_transactions, wallets, keystore,
                    keyring, wallet_passwords, remote_orders, chain_txs,
                    exec, pending >>

\* ------------------------------------------------------------------------
\* cmd_execute
\* ------------------------------------------------------------------------
\* the decision of /execute_N on the plan's order columns: "skip" when the
\* order has not expired (the handler answers and returns), "proceed"
\* otherwise.  The ledger is not read.
ExecStep1(active_order_id, active_order_expires, now) ==
    IF /\ Truthy(active_order_id)
       /\ Truthy(active_order_expires)
       /\ active_order_expires > now
    THEN "skip"
    ELSE "proceed"

\* /execute_N: the plan row is read.  A live unexpired order: the handler
\* answers and returns.  An expired one: the order columns are cleared.
ExecStart ==
    /\ exec.pc = "idle"
    /\ \E n \in 1..Len(LivePlans) :
          LET plan_id == LivePlans[n]
              row == dca_plans[plan_id]
              now == clock
          IN IF ExecStep1(row.active_order_id, row.active_order_expires,
                          now) = "skip"
             THEN UNCHANGED << exec, dca_plans >>
             ELSE /\ exec' = [ExecIdle EXCEPT !.pc = "limits",
                                              !.plan_id = plan_id,
                                              !.now = now]
                  /\ dca_plans' =
                       IF /\ Truthy(row.active_order_id)
                          /\ Truthy(row.active_order_expires)
                          /\ row.active_order_expires <= now
                       THEN SetActiveOrder(plan_id, NoOrder)
                       ELSE dca_plans
    /\ UNCHANGED << clock, sent_transactions, wallets, keystore, keyring,
                    wallet_passwords, remote_orders, chain_txs, sched,
                    pending >>

\* the limits check: any failure of the query or an amount out of limits ends
\* the handler
ExecLimits ==
    /\ exec.pc = "limits"
    /\ \E reply \in LimitReplies :
          exec' = IF /\ reply.kind = "limits"
                     /\ ~OutOfLimits(dca_plans[exec.plan_id].amount, reply)
                  THEN [exec EXCEPT !.pc = "create"]
                  ELSE ExecIdle
    /\ UNCHANGED << clock, dca_plans, sent_transactions, wallets, keystore,
                    keyring, wallet_passwords, remote_orders, chain_txs,
                    sched, pending >>

\* create_fixedfloat_order in a worker thread
ExecCreateOrder ==
    /\ exec.pc = "create"
    /\ \E ok \in BOOLEAN, time_left \in TimeLefts :
          IF ok
          THEN /\ Len(remote_orders) < MaxOrders
               /\ remote_orders' = Append(remote_orders,
                     NewRemoteOrder(exec.plan_id, "cmd_execute", time_left))
               /\ exec' = [exec EXCEPT !.pc = "persist",
                                       !.order_id = NewOrderId,
                                       !.time_left = time_left]
          ELSE /\ exec' = ExecIdle
               /\ UNCHANGED remote_orders
    /\ UNCHANGED << clock, dca_plans, sent_transactions, wallets, keystore,
                    keyring, wallet_passwords, chain_txs, sched, pending >>

\* The order is saved on the plan row and committed.  The wallet query that
\* follows names a column network_key the wallets table does not have, so it
\* raises and the handler ends in its `except Exception`; were the column
\* there, the password lookup by the key (user_id, from_asset) would find
\* nothing in a cache keyed by user_id, and the handler would ask for a manual
\* send.  Either way no ledger row is written and nothing is sent.
ExecPersist ==
    /\ exec.pc = "persist"
    /\ dca_plans' = SetActiveOrder(exec.plan_id,
                        OrderRef(exec.order_id, DepositAddress(exec.order_id),
                                 dca_plans[exec.plan_id].amount,
                                 clock + exec.time_left))
    /\ exec' = ExecIdle
    /\ UNCHANGED << clock, sent_transactions, wallets, keystore, keyring,
                    wallet_passwords, remote_orders, chain_txs, sched,
                    pending >>

Next ==
    \/ ClockTick
    \/ CrashRestart
    \/ cmd_setdca
    \/ cmd_delete
    \/ cmd_pause
    \/ cmd_resume
    \/ cmd_setwallet
    \/ cmd_deletewallet
    \/ SchedTick
    \/ SchedStep1
    \/ SchedLimits
    \/ SchedCreateOrder
    \/ SchedPersistOrder
    \/ SchedCheckWallet
    \/ SchedAnnounce
    \/ SchedAutoSend
    \/ SchedRecord
    \/ SchedNotifyResult
    \/ SchedNotifyManual
    \/ SchedAdvance
    \/ SchedExcept
    \/ SchedOuterExcept
    \/ ExecStart
    \/ ExecLimits
    \/ ExecCreateOrder
    \/ ExecPersist

Spec == Init /\ [][Next]_vars

\* The plan handlers alone, /setdca in its two steps so that the handlers of
\* several updates interleave as the dispatcher's tasks do.
NextPlans ==
    \/ cmd_setdca_check(PlanAmounts, MaxPlanRows)
    \/ cmd_setdca_insert
    \/ cmd_delete
    \/ cmd_pause
    \/ cmd_resume

SpecPlans == Init /\ [][NextPlans]_vars

\* The scheduler of an owner without a wallet (every order is left for a
\* manual send) next to the creation and deletion of plans.
NextTick ==
    \/ ClockTick
    \/ cmd_setdca_check(PlanAmounts, MaxTickRows)
    \/ cmd_setdca_insert
    \/ cmd_delete
    \/ SchedTick
    \/ SchedStep1
    \/ SchedLimits
    \/ SchedCreateOrder
    \/ SchedPersistOrder
    \/ SchedCheckWallet
    \/ SchedNotifyManual
    \/ SchedAdvance
    \/ SchedExcept
    \/ SchedOuterExcept

SpecTick == Init /\ [][NextTick]_vars

\* The scheduler of an owner who sets a wallet, next to the creation and
\* deletion of plans of one amount: a plan created again after its deletion
\* takes over the deleted plan's order.
NextInherit ==
    \/ ClockTick
    \/ cmd_setdca_check(Amounts, MaxTickRows)
    \/ cmd_setdca_insert
    \/ cmd_delete
    \/ cmd_setwallet
    \/ SchedTick
    \/ SchedStep1
    \/ SchedLimits
    \/ SchedCreateOrder
    \/ SchedPersistOrder
    \/ SchedCheckWallet
    \/ SchedAnnounce
    \/ SchedAutoSend
    \/ SchedRecord
    \/ SchedNotifyResult
    \/ SchedNotifyManual
    \/ SchedAdvance
    \/ SchedExcept
    \/ SchedOuterExcept

SpecInherit == Init /\ [][NextInherit]_vars

\* The scheduler of an owner without a wallet next to the creation and
\* deletion of plans of one amount and interval to either address: several
\* deleted plans that hold an order can match a new plan.
NextReplace ==
    \/ ClockTick
    \/ cmd_setdca_check(Amounts, MaxReplaceRows)
    \/ cmd_setdca_insert
    \/ cmd_delete
    \/ SchedTick
    \/ SchedStep1
    \/ SchedLimits
    \/ SchedCreateOrder
    \/ SchedPersistOrder
    \/ SchedCheckWallet
    \/ SchedNotifyManual
    \/ SchedAdvance
    \/ SchedExcept
    \/ SchedOuterExcept

SpecReplace == Init /\ [][NextReplace]_vars

\* ------------------------------------------------------------------------
\* The scheduler under fair ticking
\* ------------------------------------------------------------------------
\* a step of dca_scheduler
SchedNext ==
    \/ SchedTick
    \/ SchedStep1
    \/ SchedLimits
    \/ SchedCreateOrder
    \/ SchedPersistOrder
    \/ SchedCheckWallet
    \/ SchedAnnounce
    \/ SchedAutoSend
    \/ SchedRecord
    \/ SchedNotifyResult
    \/ SchedNotifyManual
    \/ SchedAdvance
    \/ SchedExcept
    \/ SchedOuterExcept

\* The scheduler of an owner who creates a plan and may set a wallet, over
\* MaxLiveClock clock steps, the process staying up.
NextLive ==
    \/ ClockAdvance(MaxLiveClock)
    \/ cmd_setdca
    \/ cmd_setwallet
    \/ SchedTick
    \/ SchedStep1
    \/ SchedLimits
    \/ SchedCreateOrder
    \/ SchedPersistOrder
    \/ SchedCheckWallet
    \/ SchedAnnounce
    \/ SchedAutoSend
    \/ SchedRecord
    \/ SchedNotifyResult
    \/ SchedNotifyManual
    \/ SchedAdvance
    \/ SchedExcept
    \/ SchedOuterExcept

\* The scheduler task is never left waiting: `while True` with
\* asyncio.sleep(60) and awaits that return or raise.  Time does not stand
\* still while the task sleeps.  The UPDATE of next_run in the iteration's
\* exception handler does not fail every time it is run.
SpecLive ==
    /\ Init
    /\ [][NextLive]_vars
    /\ WF_vars(SchedNext)
    /\ SF_vars(ClockAdvance(MaxLiveClock))
    /\ SF_vars(SchedExcept /\ dca_plans' # dca_plans)

\* ------------------------------------------------------------------------
\* The classification of a failed send, over error texts
\* ------------------------------------------------------------------------
\* words an error text is made of, some written with capitals
ErrorWords ==
    { "Timeout", "timeout", "RPC", "5xx", "Failed", "to", "connect",
      "unavailable", "reverted" }

\* the error texts of at most MaxWords words
ErrorTexts == UNION { [1..n -> ErrorWords] : n \in 0..MaxWords }

\* an iteration of the scheduler about to await auto_send_usdt: the plan is
\* due, its order is stored, the ledger row of the attempt is sending
InitClassify ==
    /\ clock = 2 * ClockStep
    /\ dca_plans =
          << PlanRow(50, 12, "bc1qA", 2 * ClockStep,
                     OrderRef(1, DepositAddress(1), 50,
                              2 * ClockStep + 1800)) >>
    /\ sent_transactions =
          << [plan_id |-> 1, order_id |-> 1, state |-> "sending",
              sent_at |-> 2 * ClockStep, approve_tx_hash |-> NULL,
              transfer_tx_hash |-> NULL, error_message |-> << >>] >>
    /\ wallets = TRUE
    /\ keystore = TRUE
    /\ keyring = TRUE
    /\ wallet_passwords = TRUE
    /\ remote_orders =
          << [plan_id |-> 1, by |-> "dca_scheduler",
              expires |-> 2 * ClockStep + 1800] >>
    /\ chain_txs = << >>
    /\ sched = [SchedIdle EXCEPT !.pc = "send", !.now = 2 * ClockStep,
                                 !.queue = << 1 >>, !.order_id = 1,
                                 !.time_left = 1800, !.msgs = 1]
    /\ exec = ExecIdle
    /\ pending = << >>

\* auto_send_usdt returns the failure (False, None, None, error_msg)
SchedSendReturned ==
    /\ sched.pc = "send"
    /\ \E error_msg \in ErrorTexts :
          sched' = [sched EXCEPT
                      !.pc = "record",
                      !.result = Result(FALSE, NULL, NULL, error_msg, << >>, "none")]
    /\ UNCHANGED << clock, dca_plans, sent_transactions, wallets, keystore,
                    keyring, wallet_passwords, remote_orders, chain_txs,
                    exec, pending >>

\* the await raises: `except Exception as send_error` classifies
\* str(send_error) and writes the row, committed
SchedSendRaised ==
    /\ sched.pc = "send"
    /\ \E error_str \in ErrorTexts :
          /\ sent_transactions' =
                UpdateLedger(sched.order_id, CurPlan,
                             ExceptionOutcome(error_str), NULL, NULL,
                             error_str)
          /\ sched' = [sched EXCEPT
                         !.pc = "notify_raised",
                         !.result = Result(FALSE, NULL, NULL, error_str,
                                           << >>, "none")]
    /\ UNCHANGED << clock, dca_plans, wallets, keystore, keyring,
                    wallet_passwords, remote_orders, chain_txs, exec, pending >>

\* bot.send_message in the `except Exception as send_error` branch.  blocked:
\* `continue`; failed: "Please send manually." without amount or address,
\* then the schedule is advanced.
SchedNotifyRaised ==
    /\ sched.pc = "notify_raised"
    /\ \E raised \in BOOLEAN :
          sched' = IF raised THEN [sched EXCEPT !.pc = "except"]
                   ELSE IF ExceptionOutcome(sched.result.error_msg) = "blocked"
                   THEN NextPlan
                   ELSE [sched EXCEPT !.pc = "advance",
                                      !.msgs = @ + 1,
                                      !.notice = Notice("failed", NULL, NULL)]
    /\ UNCHANGED << clock, dca_plans, sent_transactions, wallets, keystore,
                    keyring, wallet_passwords, remote_orders, chain_txs,
                    exec, pending >>

NextClassify ==
    \/ SchedSendReturned
    \/ SchedSendRaised
    \/ SchedRecord
    \/ SchedNotifyResult
    \/ SchedNotifyRaised
    \/ SchedAdvance
    \/ SchedExcept
    \/ SchedOuterExcept

SpecClassify == InitClassify /\ [][NextClassify]_vars

\* ------------------------------------------------------------------------
\* Properties
\* ------------------------------------------------------------------------
\* C1: in every reachable state, every plan has at most one ledger row in
\* state sending or blocked.  TLC finds it violated: a row left in sending
\* (the announcement before the send raised, or the process was killed) stays
\* sending, and once its order has expired the next tick inserts a second one.
C1_AtMostOneOpenRow ==
    \A p \in PlanIds :
        Cardinality({i \in 1..Len(sent_transactions) :
                        /\ sent_transactions[i].plan_id = p
                        /\ sent_transactions[i].state \in
                               {"sending", "blocked"}}) <= 1

\* C2: a manual execute and a scheduler iteration interleaved on one plan
\* never both pass their order check and both create a remote order for it.
\* TLC finds it violated: both read the plan row before either has saved its
\* order, and nothing else excludes them.
C2_OnlyOneCreatesOrder ==
    ~ ( /\ sched.queue # << >>
        /\ Truthy(sched.order_id)
        /\ Truthy(exec.order_id)
        /\ CurPlan = exec.plan_id )

\* C3: at no time do two unexpired remote orders exist that the scheduler
\* created for one plan.  TLC finds it violated.
C3_AtMostOneUnexpiredOrder ==
    \A p \in PlanIds :
        Cardinality({o \in 1..Len(remote_orders) :
                        /\ remote_orders[o].plan_id = p
                        /\ remote_orders[o].by = "dca_scheduler"
                        /\ remote_orders[o].expires > clock}) <= 1

\* C7: while the scheduler processes a due plan that holds an unexpired order
\* with no ledger row for it, its step ends the iteration for that plan
\* (it does not go on to the limits check and the order creation) and leaves
\* the plan rows, the ledger, the remote orders and the chain unchanged.
C7_TickIdempotent ==
    [][ ( /\ sched.pc = "step1"
          /\ Truthy(dca_plans[CurPlan].active_order_id)
          /\ Truthy(dca_plans[CurPlan].active_order_expires)
          /\ dca_plans[CurPlan].active_order_expires > sched.now
          /\ StateRow(dca_plans[CurPlan].active_order_id, CurPlan) = NoRow
          /\ sched' # sched )
        => /\ sched' \in {NextPlan, SchedIdle}
           /\ UNCHANGED << dca_plans, sent_transactions, remote_orders,
                           chain_txs >> ]_vars

\* C7's case: the scheduler is at step 1 of a plan that is due, holds an
\* unexpired order created at an earlier time (what is left of its life is not
\* a value a new order starts with) and has no ledger row for it.
C7_ReplayedTick ==
    /\ sched.pc = "step1"
    /\ sched.now = clock
    /\ dca_plans[CurPlan].next_run <= sched.now
    /\ Truthy(dca_plans[CurPlan].active_order_id)
    /\ dca_plans[CurPlan].active_order_expires > sched.now
    /\ dca_plans[CurPlan].active_order_expires - sched.now \notin TimeLefts
    /\ StateRow(dca_plans[CurPlan].active_order_id, CurPlan) = NoRow

\* C9: between ticks (and so after any restart) no plan whose current order's
\* ledger row is sent or failed has a next_run that was not advanced past the
\* time of that attempt.  TLC finds it violated: the row's final state and the
\* new next_run are committed separately, with a notification in between.
C9_LedgerAndScheduleAtomic ==
    \A p \in PlanIds :
        LET row == StateRow(dca_plans[p].active_order_id, p)
        IN ( /\ sched.pc = "sleep"
             /\ Truthy(dca_plans[p].active_order_id)
             /\ row.state \in {"sent", "failed"} )
           => dca_plans[p].next_run > row.sent_at

\* C10: when the send of a due plan's order ran with the keystore present,
\* the right password, sufficient balances, an allowance below the required
\* amount and both transactions confirming, exactly one approve and then one
\* transfer transaction were broadcast for the order, the result carries both
\* hashes, and the ledger row is sent with both hashes once it was recorded.
\* TLC finds it violated: the send fails before it reads the keystore.
C10_SuccessPath ==
    ( /\ sched.pc \in {"record", "notify_result", "advance"}
      /\ sched.env = GoodEnv
      /\ keystore )
    => LET order_id == sched.order_id
           row == StateRow(order_id, CurPlan)
       IN /\ SelectSeq(chain_txs, LAMBDA t : t.order_id = order_id) =
                << [order_id |-> order_id, kind |-> "approve"],
                   [order_id |-> order_id, kind |-> "transfer"] >>
          /\ sched.result.success
          /\ sched.result.approve_tx = ApproveHash(order_id)
          /\ sched.result.transfer_tx = TransferHash(order_id)
          /\ sched.pc # "record" =>
                /\ row.state = "sent"
                /\ row.approve_tx_hash = ApproveHash(order_id)
                /\ row.transfer_tx_hash = TransferHash(order_id)

\* the transactions of an order among those broadcast, in order
TxsOf(order_id) == SelectSeq(chain_txs, LAMBDA t : t.order_id = order_id)

\* the native balance is below
\* (approve_gas + transfer_gas) * gas_price * 1.2 * 1.5
NativeShort(env) ==
    env.native_balance * 100 <
        (env.approve_gas + env.transfer_gas) * env.gas_price
            * GAS_PRICE_MULTIPLIER_x10 * MIN_NATIVE_MULTIPLIER_x10

\* C11: when the send ran where the transfer raises "connection timeout"
\* (everything before it in order), the attempt's ledger row is blocked with
\* the error text stored and the plan's next_run is not advanced.  TLC finds
\* it violated: the send fails before it reads the keystore, with a text that
\* holds no transient keyword, and the row is failed.
C11_TransientFailureBlocks ==
    ( /\ sched.pc = "notify_result"
      /\ sched.env = [GoodEnv EXCEPT !.transfer = "send_error",
                                     !.cause = << "connection", "timeout" >>]
      /\ keystore )
    => LET row == StateRow(sched.order_id, CurPlan)
       IN /\ row.state = "blocked"
          /\ Occurs(<< "connection", "timeout" >>, row.error_message)
          /\ dca_plans[CurPlan].next_run <= sched.now

C13_ApprovalSkip ==
    sched.pc = "record" =>
        LET approve == [order_id |-> sched.order_id, kind |-> "approve"]
            sent == TxsOf(sched.order_id)
        IN /\ sched.env.allowance >= RequiredAmount(CurPlan) =>
                 \A i \in 1..Len(sent) : sent[i] # approve
           /\ (sched.env = GoodEnv /\ keystore) =>
                 /\ Len(sent) >= 1
                 /\ sent[1] = approve
                 /\ \A i \in 2..Len(sent) : sent[i] # approve

HoldsUnexpiredOrder(p) ==
    /\ Truthy(dca_plans[p].active_order_id)
    /\ dca_plans[p].active_order_expires > clock

\* C16: a step that deletes a plan holding an unexpired order reference keeps
\* every row of the table, marks that row deleted and inactive, and leaves
\* its order id, deposit address, amount and expiry as they were.
C16_DeleteKeepsOrder ==
    [][ \A p \in PlanIds :
          ( /\ ~dca_plans[p].deleted
            /\ HoldsUnexpiredOrder(p)
            /\ (p \in DOMAIN dca_plans' => dca_plans'[p].deleted) )
          => /\ Len(dca_plans') = Len(dca_plans)
             /\ dca_plans'[p].deleted
             /\ ~dca_plans'[p].active
             /\ OrderOf(dca_plans'[p]) = OrderOf(dca_plans[p])
             /\ OrderOf(dca_plans'[p]) # NoOrder ]_vars

\* a deleted plan whose row still holds its unexpired order reference
C16_DeletedWithLiveOrder ==
    \E p \in PlanIds : /\ dca_plans[p].deleted
                        /\ ~dca_plans[p].active
                        /\ HoldsUnexpiredOrder(p)
                        /\ dca_plans[p].active_order_address =
                              DepositAddress(dca_plans[p].active_order_id)

\* the plan is paused: not deleted, active = 0
Paused(p) == ~dca_plans[p].deleted /\ ~dca_plans[p].active

Live == {p \in PlanIds : ~dca_plans[p].deleted}

\* C17: in every reachable state the owner has at most 3 non-deleted plans
\* of the network.  TLC finds it violated: two /setdca handlers that both
\* counted 2 plans before either inserted leave 4.
C17_AtMostThreeLivePlans ==
    Cardinality({p \in Live : dca_plans[p].from_asset = Network}) <= 3

\* C18: in every reachable state no two non-deleted plans share network,
\* amount and interval.  TLC finds it violated: two /setdca handlers with the
\* same three values that both looked for a duplicate before either inserted
\* leave two such plans.
C18_NoDuplicateLivePlans ==
    \A p \in Live : \A q \in Live :
        ( /\ dca_plans[p].from_asset = dca_plans[q].from_asset
          /\ dca_plans[p].amount = dca_plans[q].amount
          /\ dca_plans[p].interval_hours = dca_plans[q].interval_hours )
        => p = q

\* C15: while a deleted plan holds an unexpired order reference, a /setdca
\* request with the same network, amount, interval and destination address
\* does not pass the handler's checks and no such row is inserted.  TLC finds
\* it violated: the request is accepted and the new row takes over the
\* deleted plan's order columns.
C15_IdenticalPlanRejected ==
    [][ \A p \in PlanIds :
          (dca_plans[p].deleted /\ HoldsUnexpiredOrder(p)) =>
             LET identical(row) ==
                     /\ row.from_asset = dca_plans[p].from_asset
                     /\ row.amount = dca_plans[p].amount
                     /\ row.interval_hours = dca_plans[p].interval_hours
                     /\ row.btc_address = dca_plans[p].btc_address
             IN /\ Len(pending') > Len(pending) =>
                      ~identical(pending'[Len(pending')])
                /\ (Len(dca_plans') > Len(dca_plans) /\ pending = << >>) =>
                      ~identical(dca_plans'[Len(dca_plans')]) ]_vars

\* C19: while a tick works through the plans it selected, whatever happens
\* to the plan in turn, the plans selected after it stay in line: a step
\* either keeps the selection or moves on to the next plan of it.  TLC finds
\* it violated: when the UPDATE of next_run in the iteration's exception
\* handler raises, the rest of the selection is dropped.
C19_FailureIsolation ==
    [][ (sched.pc # "sleep" /\ Len(sched.queue) > 1) =>
            \/ sched'.queue = sched.queue
            \/ /\ sched'.queue = Tail(sched.queue)
               /\ sched'.pc = "step1" ]_vars

\* C21: for every non-deleted plan, in every reachable state of its order
\* columns and its ledger row, /execute_N decides to go on to create an order
\* exactly when step 1 of the scheduler would.  TLC finds it violated: with
\* an unexpired order whose ledger row is failed the scheduler goes on and
\* /execute_N does not, as it never reads the ledger.
C21_SameEligibility ==
    \A p \in PlanIds :
        ~dca_plans[p].deleted =>
            ExecStep1(dca_plans[p].active_order_id,
                      dca_plans[p].active_order_expires, clock)
            = Step1(dca_plans[p].active_order_id,
                    dca_plans[p].active_order_expires, clock,
                    StateRow(dca_plans[p].active_order_id, p),
                    dca_plans[p].interval_hours)

\* the ledger rows that are open: sending or blocked
OpenRows ==
    {i \in 1..Len(sent_transactions) :
        sent_transactions[i].state \in {"sending", "blocked"}}

\* C22: in every reachable state, for every pair of a plan and a remote
\* order at most one ledger row is sending or blocked.
C22_OneOpenRowPerPlanAndOrder ==
    \A i \in OpenRows : \A j \in OpenRows :
        ( /\ sent_transactions[i].plan_id = sent_transactions[j].plan_id
          /\ sent_transactions[i].order_id = sent_transactions[j].order_id )
        => i = j

\* a plan created again holds the order that a deleted plan's open ledger
\* row belongs to
C22_InheritedOrderWithOpenRow ==
    \E i \in OpenRows : \E p \in PlanIds :
        /\ p # sent_transactions[i].plan_id
        /\ dca_plans[sent_transactions[i].plan_id].deleted
        /\ ~dca_plans[p].deleted
        /\ dca_plans[p].active_order_id = sent_transactions[i].order_id

\* C23: a ledger row's state changes only from sending, to sent, blocked or
\* failed; no row is removed; a row that is sent or failed is never written
\* again, whatever the scheduler, a retry or /execute_N does later.
C23_LedgerTransitions ==
    [][ /\ Len(sent_transactions') >= Len(sent_transactions)
        /\ \A i \in 1..Len(sent_transactions) :
              /\ sent_transactions'[i].state # sent_transactions[i].state =>
                    /\ sent_transactions[i].state = "sending"
                    /\ sent_transactions'[i].state \in
                          {"sent", "blocked", "failed"}
              /\ sent_transactions[i].state \in {"sent", "failed"} =>
                    sent_transactions'[i] = sent_transactions[i] ]_vars

\* a later attempt of the same plan has been recorded next to a row that
\* is failed
C23_LaterAttemptRecorded ==
    /\ sched.pc = "notify_result"
    /\ \E i \in 1..Len(sent_transactions) :
          /\ sent_transactions[i].plan_id = CurPlan
          /\ sent_transactions[i].order_id # sched.order_id
          /\ sent_transactions[i].state = "failed"
    /\ StateRow(sched.order_id, CurPlan).state = "failed"

\* C24: once step 1 has let a due plan through, the plan does not hold an
\* unexpired order whose ledger row is sent or failed: step 1 has cleared the
\* reference, so a tick that ends at the limits check leaves none behind.
\* TLC finds it violated: step 1 logs "clearing active order" and clears
\* nothing.
C24_FinishedOrderCleared ==
    sched.pc = "limits" =>
        LET plan == dca_plans[CurPlan]
        IN ~( /\ Truthy(plan.active_order_id)
              /\ plan.active_order_expires > sched.now
              /\ StateRow(plan.active_order_id, CurPlan).state
                    \in {"sent", "failed"} )

\* the step is the scheduler creating a remote order
SchedCreates ==
    /\ Len(remote_orders') > Len(remote_orders)
    /\ remote_orders'[Len(remote_orders')].by = "dca_scheduler"

\* C25: after the limits query of an iteration failed, with the network
\* reported unavailable or with any other error, the iteration is on its way
\* to reschedule the plan and the scheduler creates no order.  TLC finds it
\* violated: an error other than "unavailable" is logged and the iteration
\* goes on to create the order.
C25_LimitsErrorReschedules ==
    [][ sched.limits \in {"unavailable", "generic"} =>
            /\ sched.pc \in {"advance", "except", "outer_except"}
            /\ ~SchedCreates ]_vars

\* C26: when the limits check found the plan's amount below the minimum or
\* above the effective maximum, the iteration holds no order, and its steps
\* create no order, insert no ledger row, leave the plan's order columns as
\* they are, and where they write the plan they set next_run to the tick's
\* time plus one interval and end the iteration.
C26_OutOfLimitsReschedules ==
    [][ /\ (sched.pc = "limits" /\ sched'.limits = "out_of_limits") =>
              UNCHANGED << dca_plans, remote_orders, sent_transactions >>
        /\ sched.limits = "out_of_limits" =>
              /\ sched.pc \in {"advance", "except", "outer_except"}
              /\ sched.order_id = NULL
              /\ sched' # sched =>
                    /\ UNCHANGED << remote_orders, sent_transactions >>
                    /\ OrderOf(dca_plans'[CurPlan]) = OrderOf(dca_plans[CurPlan])
                    /\ dca_plans' # dca_plans =>
                          /\ dca_plans' =
                                [dca_plans EXCEPT ![CurPlan].next_run =
                                    sched.now + dca_plans[CurPlan].interval_hours
                                                    * SecondsPerHour]
                          /\ sched' = NextPlan ]_vars

\* the limits check found the amount of a plan that holds an order out of
\* limits, and the owner has been told
C26_OutOfLimitsSeen ==
    /\ sched.pc = "advance"
    /\ sched.limits = "out_of_limits"
    /\ Truthy(dca_plans[CurPlan].active_order_id)
    /\ dca_plans[CurPlan].next_run < sched.now

\* C27: the iteration stores the order it created on the plan row before the
\* credentials check; when the check finds no wallet row or no cached
\* password, it inserts no ledger row, and up to the end of the iteration there is
\* no ledger row and no transaction for the order, the scheduler's steps
\* write none, and where they write the plan they set next_run to the tick's
\* time plus one interval.
C27_NoCredentialsManualSend ==
    [][ /\ (sched.pc = "persist" /\ sched'.pc = "wallet") =>
              /\ remote_orders[sched.order_id].plan_id = CurPlan
              /\ dca_plans'[CurPlan].active_order_id = sched.order_id
        /\ (sched.pc = "wallet" /\ ~(wallets /\ wallet_passwords)) =>
              /\ remote_orders[sched.order_id].plan_id = CurPlan
              /\ sched' # sched =>
                    /\ UNCHANGED << dca_plans, sent_transactions, chain_txs >>
                    /\ sched' = SchedIdle \/ sched'.pc = "notify_manual"
        /\ ( \/ sched.pc = "notify_manual"
             \/ sched.pc = "advance" /\ sched.notice.kind = "manual" ) =>
              /\ StateRow(sched.order_id, CurPlan) = NoRow
              /\ TxsOf(sched.order_id) = << >>
              /\ sched' # sched =>
                    /\ UNCHANGED << sent_transactions, chain_txs >>
                    /\ dca_plans' # dca_plans =>
                          /\ sched.pc = "advance"
                          /\ dca_plans' =
                                [dca_plans EXCEPT ![CurPlan].next_run =
                                    sched.now + dca_plans[CurPlan].interval_hours
                                                    * SecondsPerHour] ]_vars

\* an iteration of an owner who has a wallet row but no cached password has
\* asked for a manual send
C27_ManualSendAsked ==
    /\ sched.pc = "advance"
    /\ sched.notice = Notice("manual", RequiredAmount(CurPlan),
                             DepositAddress(sched.order_id))
    /\ wallets
    /\ ~wallet_passwords
    /\ dca_plans[CurPlan].active_order_id = sched.order_id

\* C28: when the iteration's exception handler has rescheduled a plan, the
\* ledger row the iteration opened, if it opened one, is failed, and the
\* plan's next_run is the tick's time plus one interval.  TLC finds it
\* violated: the handler writes next_run only, and a row inserted before the
\* exception stays sending.
C28_ExceptionFailsAttempt ==
    [][ (sched.pc = "except" /\ sched' # sched /\ dca_plans' # dca_plans) =>
            /\ dca_plans'[CurPlan].next_run =
                  sched.now + dca_plans[CurPlan].interval_hours * SecondsPerHour
            /\ \A i \in 1..Len(sent_transactions') :
                  ( /\ sent_transactions'[i].plan_id = CurPlan
                    /\ sent_transactions'[i].order_id = sched.order_id )
                  => sent_transactions'[i].state = "failed" ]_vars

\* a run of the sequence in which the receipt of the approve (needed, the
\* allowance being short) or of the transfer has a status other than 1
ReceiptReverted(env, required_amount) ==
    \/ env.approve = "reverted" /\ env.allowance < required_amount
    \/ env.transfer = "reverted"

C30_ReceiptTimeoutBlocks ==
    ( /\ sched.pc \in {"notify_result", "advance"}
      /\ sched.env = [GoodEnv EXCEPT !.transfer = "receipt_timeout"]
      /\ keystore )
    => /\ StateRow(sched.order_id, CurPlan).state = "blocked"
       /\ dca_plans[CurPlan].next_run <= sched.now

\* an error text holds a transient indicator once put in lower case
Transient(text) ==
    \E i \in 1..Len(text) :
        \/ LowerWord(text[i]) \in {"timeout", "connection", "rpc", "5xx",
                                   "unavailable"}
        \/ /\ i + 2 <= Len(text)
           /\ LowerWord(text[i]) = "failed"
           /\ LowerWord(text[i + 1]) = "to"
           /\ LowerWord(text[i + 2]) = "connect"

DeletedHolding(amount, interval) ==
    {p \in PlanIds : /\ SameParams(p, amount, interval)
                     /\ dca_plans[p].deleted
                     /\ Truthy(dca_plans[p].active_order_id)
                     /\ Truthy(dca_plans[p].active_order_expires)
                     /\ dca_plans[p].active_order_expires > clock}

\* C32: when /setdca decides the row of a new plan that matches deleted plans
\* holding an unexpired order, the row takes over the order of such a plan
\* with the new plan's address when there is one, and has no order when all
\* of them have another address.  TLC finds the first half violated: only the
\* deleted plan whose order expires last is looked at.
C32_InheritsBySameAddress ==
    [][ Len(pending') = Len(pending) + 1 =>
          LET new == pending'[Len(pending')]
              held == DeletedHolding(new.amount, new.interval_hours)
              same == {p \in held :
                          dca_plans[p].btc_address = new.btc_address}
          IN /\ same # {} =>
                   \E p \in same : OrderOf(new) = OrderOf(dca_plans[p])
             /\ (held # {} /\ same = {}) => OrderOf(new) = NoOrder ]_vars

\* C33: when the send has run, the private key was not left as decrypted:
\* not by the run itself, and not by the transaction steps of the sequence as
\* they are written, applied to what the chain answers in this run.  TLC
\* finds the second half violated: only the path that ends in success runs
\* the statements that clear the key.
C33_KeyClearedOnExit ==
    sched.pc = "record" =>
        /\ sched.result.key # "held"
        /\ ApproveStep(sched.order_id, RequiredAmount(CurPlan),
                       sched.env).key # "held"

\* an iteration that reached its outcome and told the owner: sent, failed or
\* left for a manual send (the advance of the schedule is all that is left)
OutcomeNotified ==
    /\ sched.pc = "advance"
    /\ sched.notice.kind \in {"sent", "failed", "manual"}

C35_AdvanceFromNow ==
    [][ \A p \in PlanIds :
          dca_plans'[p].next_run # dca_plans[p].next_run =>
            /\ sched.pc \in {"advance", "except"}
            /\ p = CurPlan
            /\ dca_plans'[p].next_run =
                  sched.now + dca_plans[p].interval_hours * SecondsPerHour
            /\ dca_plans'[p].next_run >=
                  clock' + dca_plans[p].interval_hours * SecondsPerHour
            /\ \A i \in 1..Len(DuePlans(sched.now)') :
                  DuePlans(sched.now)'[i] # p ]_vars

\* C35's case: the iteration of a plan that is overdue by a full interval or
\* more is about to write next_run
C35_OverdueAdvance ==
    /\ sched.pc = "advance"
    /\ dca_plans[CurPlan].next_run
          + dca_plans[CurPlan].interval_hours * SecondsPerHour <= sched.now

\* the last clock step from which every order that exists has expired before
\* the clock stops (an order lives 18 hours at most, less than two steps)
LiveHorizon == MaxLiveClock - 2

\* the plan is active, not deleted and due, n orders have been issued, and
\* the clock has not passed the horizon
DueWith(n) ==
    /\ Len(dca_plans) = 1
    /\ dca_plans[1].active
    /\ ~dca_plans[1].deleted
    /\ dca_plans[1].next_run <= clock
    /\ clock <= LiveHorizon * ClockStep
    /\ Len(remote_orders) = n

C37_NoSendingRowLeft ==
    [][ ( /\ sched.pc \in {"advance", "except"}
          /\ sched.order_id # NULL
          /\ dca_plans' # dca_plans
          /\ sched' = NextPlan )
        => \A i \in 1..Len(sent_transactions') :
              ( /\ sent_transactions'[i].plan_id = CurPlan
                /\ sent_transactions'[i].order_id = sched.order_id )
              => sent_transactions'[i].state # "sending" ]_vars

\* C38: the credentials check of an iteration goes on to the automatic send
\* only if the owner has a wallet row and a cached password at that moment,
\* and otherwise (the process not being killed there) leaves the order for a
\* manual send without a ledger row;
\* /deletewallet (the keystore file goes) leaves neither a wallet row nor a
\* cached password; and a wallet row appears only by /setwallet (the
\* keystore file appears with it).
C38_AutoSendNeedsWallet ==
    [][ /\ (sched.pc = "wallet" /\ sched'.pc = "announce") =>
              wallets /\ wallet_passwords
        /\ (sched.pc = "wallet" /\ sched'.pc \notin {"wallet", "sleep"}
                                /\ ~(wallets /\ wallet_passwords)) =>
              /\ sched'.pc = "notify_manual"
              /\ UNCHANGED << sent_transactions, chain_txs, dca_plans >>
        /\ (keystore /\ ~keystore') => (~wallets' /\ ~wallet_passwords')
        /\ (~wallets /\ wallets') => (~keystore /\ keystore') ]_vars

\* C38's case: an attempt was made with the wallet, the wallet was deleted,
\* and the order of a later tick is left for a manual send
C38_ManualAfterDelete ==
    /\ sched.pc = "notify_manual"
    /\ ~wallets
    /\ ~keystore
    /\ \E i \in 1..Len(sent_transactions) :
          /\ sent_transactions[i].plan_id = CurPlan
          /\ sent_transactions[i].order_id # sched.order_id

\* C39: a deleted plan is inactive, and every step leaves a deleted plan
\* deleted and inactive.
C39_DeletedStaysDeleted ==
    [][ /\ \A p \in PlanIds :
              dca_plans[p].deleted =>
                  /\ ~dca_plans[p].active
                  /\ dca_plans'[p].deleted
                  /\ ~dca_plans'[p].active
        /\ \A p \in 1..Len(dca_plans') :
              dca_plans'[p].deleted => ~dca_plans'[p].active ]_vars

\* C39's case: the plan was deleted while the scheduler's iteration for it
\* was under way, and the iteration is about to write the plan row
C39_DeletedPlanWritten ==
    /\ sched.pc \in {"persist", "advance"}
    /\ dca_plans[CurPlan].deleted

============================================================================
